---- MODULE Spec2Model ----
(***************************************************************************)
(* Model of geoip.py: one sync run (main) of the two data files into the   *)
(* container xray_server, and consecutive re-invocations of the script.    *)
(* The external commands (which, docker ps/exec/cp/restart, the HTTP       *)
(* download) are the environment: their results are chosen with \E.        *)
(***************************************************************************)
EXTENDS Integers, Sequences, FiniteSets, TLC

\* ---------------------------------------------------------------- bounds
NumContents == 2
MaxRuns == 2

\* ------------------------------------------------------------- constants
CONTAINER == "xray_server"
TARGET_DIR == "/usr/share/xray"
FILES == <<"geoip.dat", "geosite.dat">>

Names == {FILES[k] : k \in DOMAIN FILES}

\* byte strings a remote file or a deployed file can hold ("" is empty)
AllBytes == <<"", "a", "b", "c", "d", "e">>
Contents == {AllBytes[k] : k \in 1..NumContents}

\* hashlib.md5(b).hexdigest(), first 8 hex digits of the real digests
Md5Table == <<"d41d8cd9", "0cc175b9", "92eb5ffe", "4a8a08f0", "8277e091", "e1671797">>
md5(b) == Md5Table[CHOOSE k \in DOMAIN AllBytes : AllBytes[k] = b]

None == "None"
NotFound == "NotFound"

\* path of an artifact inside the container: f"{TARGET_DIR}/{name}"
TargetPathFirst(name) == <<TARGET_DIR, FILES[1]>>
TargetPath(name) == <<TARGET_DIR, name>>
Paths == {<<TARGET_DIR, n>> : n \in Names}

\* ------------------------------------------------- results of a command
\* what the operating system reports for one command: the binary was found,
\* its exit status, its stripped stdout
Cmd(found, rc, out) == [found |-> found, rc |-> rc, out |-> out]

\* run_command: the value returned, or the exception that leaves it
Ret(v) == [raised |-> "", isNone |-> FALSE, val |-> v]
RetNone == [raised |-> "", isNone |-> TRUE, val |-> None]
Raise(e) == [raised |-> e, isNone |-> FALSE, val |-> None]

run_command(c, check, capture) ==
    IF ~c.found THEN Raise("FileNotFoundError")
    ELSE IF check /\ c.rc # 0 THEN Raise("CalledProcessError")
    ELSE IF capture THEN Ret(c.out) ELSE RetNone

\* docker_available: `which docker` exits 1 with empty output when absent
docker_available(present) ==
    ~run_command(Cmd(TRUE, IF present THEN 0 ELSE 1,
                     IF present THEN "/usr/bin/docker" ELSE ""),
                 FALSE, TRUE).isNone

\* container_exists: ps is the `docker ps -a` result, its output a sequence
\* of lines; the value is a boolean, or the exception run_command raised
container_exists(name, ps) ==
    LET r == run_command(ps, TRUE, TRUE) IN
    IF r.raised # "" THEN r
    ELSE IF r.val = <<>> THEN Ret(FALSE)
    ELSE Ret(\E k \in DOMAIN r.val : r.val[k] = name)

\* get_file_md5 of a staged file
get_file_md5(bytes) == md5(bytes)

\* variant that hashes whatever `cat` printed, an absent file hashing as empty
get_container_file_md5_empty(content, execOk) ==
    IF content = NotFound THEN md5("") ELSE md5(content)

\* get_container_file_md5: content is what the container holds at the path
\* (NotFound when absent), execOk whether `docker exec` can run at all
get_container_file_md5(content, execOk) ==
    LET exists == run_command(
            Cmd(TRUE, IF execOk /\ content # NotFound THEN 0 ELSE 1, ""),
            FALSE, FALSE)
    IN  IF exists.isNone THEN None
        ELSE IF execOk /\ content # NotFound THEN md5(content)
        ELSE None

\* copy_to_container / restart_container: True unless run_command raised
copy_to_container(c) == run_command(c, TRUE, FALSE).raised = ""
restart_container_swallow(c) == TRUE
restart_container(c) == run_command(c, TRUE, FALSE).raised = ""

\* `if copy_to_container(...): changed = True`
ChangedAfterCopyAlways(changed, ok) == TRUE
ChangedAfterCopy(changed, ok) == IF ok THEN TRUE ELSE changed

\* `if changed:` guarding the restart
RestartNeededAlways(changed) == TRUE
RestartNeeded(changed) == changed

\* value returned by the tail of main
MainReturnZero(changed, restarted) == 0
MainReturn(changed, restarted) ==
    IF changed THEN (IF restarted THEN 0 ELSE 1) ELSE 0

\* index of the artifact the loop turns to after a failed download:
\* `continue` (a `break` would leave the loop)
AfterFetchFailedBreak(j) == Len(FILES) + 1
AfterFetchFailed(j) == j + 1

\* where control goes once the loop index is j
NextPcRestartInLoop(j) == "restart"
NextPc(j) == IF j > Len(FILES) THEN "restart" ELSE "download"

\* ----------------------------------------------------------------- state
VARIABLES
    dockerPresent,   \* environment: docker is in PATH
    dockerPs,        \* environment: result of `docker ps -a`
    remote,          \* environment: bytes behind each URL
    deployed,        \* environment: bytes at each path in the container
    pc, i,           \* position in main, index into FILES (0 before the loop)
    staged,          \* files in the temporary directory
    new_md5, cur_md5, changed,
    ret, raised,     \* value main returned (-1: none yet), exception it raised
    outcome,         \* per artifact: Pending or its terminal outcome
    restartOutcome, restarts,
    fetchRes, copyRes,   \* result of the download / docker cp of this run
    md5read,         \* the get_container_file_md5 call of this run: its
                     \* inputs and the value it returned
    fetched,         \* bytes each download of this run delivered
    deployedAtStart, \* container content when this run started
    run

\* the host's files, shared by install.py and uninstall.py
VARIABLES
    env_file,        \* content of .env (NoEnv when the file is absent)
    config_json      \* content of config_client.json (NoConfig when absent)

\* uninstall.py
VARIABLES
    u_pc, u_i,       \* position in main, index into CONTAINERS
    u_args,          \* euid is root, --dry-run, --yes, --remove-env
    u_containers,    \* containers docker knows on the host
    u_image_id,      \* tun2socks_image_id
    u_cmds,          \* docker commands main tried to run
    u_unlinks,       \* files main tried to unlink
    u_proceed,       \* main went past the confirmation
    u_ret, u_raised, \* value main returned (-1: none yet), exception raised
    u_before         \* the host's files when main started

\* install.py
VARIABLES
    i_pc,
    i_args,          \* euid is root, --dry-run, --force, --yes, --server list
    detected,        \* what the detection commands report on this host
    i_env, i_servers,      \* env and servers of main
    i_declined,      \* the user answered no at the prompt
    i_system,        \* system changes applied: ip_forward, firewall, ...
    i_ret, i_raised, \* value main returned (-1: none yet), exception raised
    i_before         \* the host's files when main started

hostVars == <<env_file, config_json>>
installVars == <<i_pc, i_args, detected, i_env, i_servers, i_declined,
                 i_system, i_ret, i_raised, i_before>>
uninstallVars == <<u_pc, u_i, u_args, u_containers, u_image_id, u_cmds,
                   u_unlinks, u_proceed, u_ret, u_raised, u_before>>

vars == <<dockerPresent, dockerPs, remote, deployed, pc, i, staged, new_md5,
          cur_md5, changed, ret, raised, outcome, restartOutcome, restarts,
          fetchRes, copyRes, md5read, fetched, deployedAtStart, run,
          hostVars, uninstallVars, installVars>>

\* what a sync run does not touch: the commands' environment and the state
\* of the other two scripts
env == <<dockerPresent, dockerPs, remote, hostVars, uninstallVars,
         installVars>>
obs == <<outcome, restartOutcome, restarts, fetchRes, copyRes, md5read,
         fetched>>

NoFile == "NoFile"
NoRead == [issued |-> FALSE, execOk |-> FALSE, content |-> NotFound,
           result |-> None]
PsResults ==
    {Cmd(TRUE, 1, <<>>)} \cup
    {Cmd(TRUE, 0, s) : s \in {<<>>, <<"xray_client">>, <<CONTAINER>>,
                              <<"xray_client", CONTAINER>>}}

\* the other scripts are not running
REQUIRED_ENV_KEYS == <<"ARCH", "IFACE", "LAN", "ADDR", "SERVERS">>
EnvKeys == {REQUIRED_ENV_KEYS[k] : k \in DOMAIN REQUIRED_ENV_KEYS}
\* a key=value mapping: the keys present and their values (a value is a
\* sequence of tokens, <<>> for a key that is not present)
\* keys a .env file can hold: the required ones and one the scripts ignore
FileKeys == EnvKeys \cup {"TZ"}
EmptyEnv == [keys |-> {}, val |-> [k \in FileKeys |-> <<>>]]
\* a file: whether it exists, and what it holds
NoEnv == [exists |-> FALSE, data |-> EmptyEnv]
NoConfig == [exists |-> FALSE, servers |-> <<>>, domain_outbound_tag |-> ""]
HostAtRest == env_file = NoEnv /\ config_json = NoConfig
UninstallAtRest ==
    /\ u_pc = "idle" /\ u_i = 0
    /\ u_args = [root |-> FALSE, dry_run |-> FALSE, yes |-> FALSE,
                 remove_env |-> FALSE]
    /\ u_containers = {}
    /\ u_image_id = None
    /\ u_cmds = {} /\ u_unlinks = {}
    /\ u_proceed = FALSE
    /\ u_ret = -1 /\ u_raised = ""
    /\ u_before = [env |-> NoEnv, config |-> NoConfig]

NoHost == [ok |-> FALSE, arch |-> "", iface |-> "", addr |-> "", prefix |-> 0]
InstallAtRest ==
    /\ i_pc = "idle"
    /\ i_args = [root |-> FALSE, dry_run |-> FALSE, force |-> FALSE,
                 yes |-> FALSE, server |-> <<>>]
    /\ detected = NoHost
    /\ i_env = EmptyEnv /\ i_servers = <<>>
    /\ i_declined = FALSE
    /\ i_system = {}
    /\ i_ret = -1 /\ i_raised = ""
    /\ i_before = [env |-> NoEnv, config |-> NoConfig]

geoipVars == <<dockerPresent, dockerPs, remote, deployed, pc, i, staged,
               new_md5, cur_md5, changed, ret, raised, outcome,
               restartOutcome, restarts, fetchRes, copyRes, md5read, fetched,
               deployedAtStart, run>>

FreshRun ==
    /\ pc = "docker_available" /\ i = 0
    /\ staged = [n \in Names |-> NoFile]
    /\ new_md5 = None /\ cur_md5 = None /\ changed = FALSE
    /\ ret = -1 /\ raised = ""
    /\ outcome = [n \in Names |-> "Pending"]
    /\ restartOutcome = "NotAttempted" /\ restarts = 0
    /\ fetchRes = [n \in Names |-> "none"]
    /\ copyRes = [n \in Names |-> "none"]
    /\ md5read = [n \in Names |-> NoRead]
    /\ fetched = [n \in Names |-> NoFile]

Init ==
    /\ dockerPresent \in BOOLEAN
    /\ dockerPs \in PsResults
    /\ remote \in [Names -> Contents]
    /\ deployed \in [Paths -> Contents \cup {NotFound}]
    /\ deployedAtStart = deployed
    /\ run = 1
    /\ FreshRun
    /\ HostAtRest
    /\ UninstallAtRest
    /\ InstallAtRest

\* ------------------------------------------------------------ main steps
\* lines 141-144
CheckDocker ==
    /\ pc = "docker_available"
    /\ IF ~docker_available(dockerPresent)
       THEN pc' = "done" /\ ret' = 1
       ELSE pc' = "container_exists" /\ ret' = ret
    /\ UNCHANGED <<env, deployed, i, staged, new_md5, cur_md5, changed,
                   raised, obs, deployedAtStart, run>>

\* lines 146-151
CheckContainer ==
    /\ pc = "container_exists"
    /\ LET r == container_exists(CONTAINER,
                    [dockerPs EXCEPT !.found = dockerPresent]) IN
       IF r.raised # ""
       THEN pc' = "done" /\ raised' = r.raised /\ UNCHANGED <<ret, i>>
       ELSE IF ~r.val
       THEN pc' = "done" /\ ret' = 1 /\ UNCHANGED <<raised, i>>
       ELSE pc' = "download" /\ i' = 1 /\ UNCHANGED <<ret, raised>>
    /\ changed' = FALSE
    /\ UNCHANGED <<env, deployed, staged, new_md5, cur_md5, obs,
                   deployedAtStart, run>>

\* leaving the `with` block removes the temporary directory
TmpAfter(j, s) == IF j > Len(FILES) THEN [n \in Names |-> NoFile] ELSE s

\* lines 157-162
Download ==
    /\ pc = "download"
    /\ LET name == FILES[i] IN
       \E ok \in BOOLEAN :
          IF ok
          THEN /\ staged' = [staged EXCEPT ![name] = remote[name]]
               /\ fetched' = [fetched EXCEPT ![name] = remote[name]]
               /\ fetchRes' = [fetchRes EXCEPT ![name] = "ok"]
               /\ pc' = "compare"
               /\ UNCHANGED <<i, outcome>>
          ELSE /\ fetchRes' = [fetchRes EXCEPT ![name] = "failed"]
               /\ outcome' = [outcome EXCEPT ![name] = "FetchFailed"]
               /\ i' = AfterFetchFailed(i)
               /\ pc' = NextPc(i')
               /\ staged' = TmpAfter(i', staged)
               /\ UNCHANGED fetched
    /\ UNCHANGED <<env, deployed, new_md5, cur_md5, changed, ret, raised,
                   restartOutcome, restarts, copyRes, md5read,
                   deployedAtStart, run>>

\* lines 164-177 and 186-187
Compare ==
    /\ pc = "compare"
    /\ LET name == FILES[i] IN
       \E execOk \in BOOLEAN :
          /\ new_md5' = get_file_md5(staged[name])
          /\ cur_md5' = get_container_file_md5(deployed[TargetPath(name)],
                                               execOk)
          /\ md5read' = [md5read EXCEPT ![name] =
                 [issued |-> TRUE, execOk |-> execOk,
                  content |-> deployed[TargetPath(name)],
                  result |-> cur_md5']]
          /\ IF new_md5' # cur_md5'
             THEN pc' = "copy" /\ UNCHANGED <<i, outcome, staged>>
             ELSE /\ outcome' = [outcome EXCEPT ![name] = "Unchanged"]
                  /\ i' = i + 1
                  /\ pc' = NextPc(i')
                  /\ staged' = TmpAfter(i', staged)
    /\ UNCHANGED <<env, deployed, changed, ret, raised, restartOutcome,
                   restarts, fetchRes, copyRes, fetched, deployedAtStart,
                   run>>

\* lines 178-185; `docker cp` either installs the staged file or fails
\* leaving the path as it was
Copy ==
    /\ pc = "copy"
    /\ LET name == FILES[i] IN
       \E rc \in {0, 1} :
          LET ok == copy_to_container(Cmd(TRUE, rc, "")) IN
          /\ deployed' = IF rc = 0
                         THEN [deployed EXCEPT ![TargetPath(name)] =
                                                    staged[name]]
                         ELSE deployed
          /\ copyRes' = [copyRes EXCEPT ![name] =
                             IF rc = 0 THEN "ok" ELSE "failed"]
          /\ changed' = ChangedAfterCopy(changed, ok)
          /\ outcome' = [outcome EXCEPT ![name] =
                             IF ok THEN "Applied" ELSE "ApplyFailed"]
    /\ i' = i + 1
    /\ pc' = NextPc(i')
    /\ staged' = TmpAfter(i', staged)
    /\ UNCHANGED <<env, new_md5, cur_md5, ret, raised, restartOutcome,
                   restarts, fetchRes, md5read, fetched, deployedAtStart,
                   run>>

\* lines 189-199
Restart ==
    /\ pc = "restart"
    /\ IF RestartNeeded(changed)
       THEN \E rc \in {0, 1} :
              LET ok == restart_container(Cmd(TRUE, rc, "")) IN
              /\ restarts' = restarts + 1
              /\ restartOutcome' = IF rc = 0 THEN "Succeeded" ELSE "Failed"
              /\ ret' = MainReturn(TRUE, ok)
       ELSE /\ ret' = MainReturn(FALSE, FALSE)
            /\ UNCHANGED <<restarts, restartOutcome>>
    /\ pc' = "done"
    /\ UNCHANGED <<env, deployed, i, staged, new_md5, cur_md5, changed,
                   raised, outcome, fetchRes, copyRes, md5read, fetched,
                   deployedAtStart, run>>

\* lines 202-203: the script is invoked again (cron, the operator); the
\* remote files may have been republished in between
NextRun ==
    /\ pc = "done"
    /\ run < MaxRuns
    /\ run' = run + 1
    /\ remote' \in [Names -> Contents]
    /\ deployedAtStart' = deployed
    /\ pc' = "docker_available" /\ i' = 0
    /\ staged' = [n \in Names |-> NoFile]
    /\ new_md5' = None /\ cur_md5' = None /\ changed' = FALSE
    /\ ret' = -1 /\ raised' = ""
    /\ outcome' = [n \in Names |-> "Pending"]
    /\ restartOutcome' = "NotAttempted" /\ restarts' = 0
    /\ fetchRes' = [n \in Names |-> "none"]
    /\ copyRes' = [n \in Names |-> "none"]
    /\ md5read' = [n \in Names |-> NoRead]
    /\ fetched' = [n \in Names |-> NoFile]
    /\ UNCHANGED <<dockerPresent, dockerPs, deployed, hostVars,
                   uninstallVars, installVars>>

Next ==
    \/ CheckDocker
    \/ CheckContainer
    \/ Download
    \/ Compare
    \/ Copy
    \/ Restart
    \/ NextRun

Spec == Init /\ [][Next]_vars

\* ---------------------------------------------------------- vocabulary
Terminal == {"Unchanged", "Applied", "FetchFailed", "ApplyFailed"}
PathOf(n) == <<TARGET_DIR, n>>
\* main reached its tail: both start-up checks passed and the loop ended
Completed == pc = "done" /\ i > Len(FILES)
AppliedSet == {n \in Names : outcome[n] = "Applied"}
\* the artifact's remote bytes are the bytes the container already holds
UpToDate(n) == fetchRes[n] = "ok" /\ fetched[n] = deployedAtStart[PathOf(n)]
\* the outcome an artifact's own download and copy results determine
OwnOutcome(n) ==
    IF fetchRes[n] = "failed" THEN "FetchFailed"
    ELSE IF copyRes[n] = "ok" THEN "Applied"
    ELSE IF copyRes[n] = "failed" THEN "ApplyFailed"
    ELSE "Unchanged"

\* ------------------------------------------------------------------ C1
\* C1 (as claimed): at the end of a run, every artifact whose downloaded
\* bytes equal the bytes the container held at the start of the run has
\* outcome Unchanged and no copy was issued for it; when that is so for all
\* artifacts, no restart was attempted.
C1_Idempotent ==
    Completed =>
        /\ \A n \in Names :
              UpToDate(n) => outcome[n] = "Unchanged" /\ copyRes[n] = "none"
        /\ (\A n \in Names : UpToDate(n)) =>
              restartOutcome = "NotAttempted" /\ restarts = 0

\* ------------------------------------------------------------------ C2
\* C2: when a run has ended, a restart was attempted iff some artifact is
\* Applied, and an artifact is Applied iff its copy succeeded.
C2_RestartIffApplied ==
    pc = "done" =>
        /\ (restartOutcome # "NotAttempted") <=> (AppliedSet # {})
        /\ (restarts > 0) <=> (AppliedSet # {})
        /\ \A n \in Names : outcome[n] = "Applied" <=> copyRes[n] = "ok"

\* a run that ended with a failed download, a failed copy and no restart
C2_Witness ==
    /\ Completed
    /\ outcome["geoip.dat"] = "FetchFailed"
    /\ outcome["geosite.dat"] = "ApplyFailed"
    /\ restartOutcome = "NotAttempted"

\* ------------------------------------------------------------------ C3
\* C3: at most one restart per run, issued only once every artifact has its
\* terminal outcome; a completed run has one restart when some artifact is
\* Applied and none otherwise; after the restart no download, fingerprint
\* read or copy happens in that run.
C3_State ==
    /\ restarts <= 1
    /\ restarts > 0 => \A n \in Names : outcome[n] \in Terminal
    /\ Completed => restarts = (IF AppliedSet # {} THEN 1 ELSE 0)

C3_Step ==
    (restarts > 0 /\ run' = run) =>
        /\ fetchRes' = fetchRes
        /\ copyRes' = copyRes
        /\ md5read' = md5read
        /\ outcome' = outcome
        /\ restarts' = restarts

C3_OneRestartAfterAll == [](C3_State) /\ [][C3_Step]_vars

\* both artifacts Applied, one restart
C3_Witness ==
    /\ Completed
    /\ AppliedSet = Names
    /\ restarts = 1

\* ------------------------------------------------------------------ C4
\* C4 (as claimed): a run returns 0 iff every artifact is Unchanged or
\* Applied and the restart, if attempted, succeeded.
C4_ExitIffAllSucceeded ==
    (pc = "done" /\ ret \in {0, 1}) =>
        (ret = 0 <=>
            /\ \A n \in Names : outcome[n] \in {"Unchanged", "Applied"}
            /\ restartOutcome # "Failed")

\* C4 (amended): a run that passed the start-up checks returns 0 iff the
\* restart, if attempted, succeeded, and 1 iff the attempted restart failed;
\* FetchFailed and ApplyFailed outcomes do not change the value returned.
C4_ExitReflectsRestart ==
    Completed =>
        /\ ret \in {0, 1}
        /\ raised = ""
        /\ ret = 0 <=> restartOutcome \in {"NotAttempted", "Succeeded"}
        /\ ret = 1 <=> restartOutcome = "Failed"

\* a failed download beside a successful restart, and the run returns 0
C4_Witness ==
    /\ Completed
    /\ outcome["geoip.dat"] = "FetchFailed"
    /\ outcome["geosite.dat"] = "Applied"
    /\ restartOutcome = "Succeeded"
    /\ ret = 0

\* ------------------------------------------------------------------ C5
\* C5: a failed download makes the artifact FetchFailed with no fingerprint
\* read and no copy; once the loop was entered the run ends with every
\* artifact at the terminal outcome its own download and copy results
\* determine; a restart needs a successful copy, so a run whose downloads
\* all fail issues none.
C5_FetchFailureIsolated ==
    /\ \A n \in Names :
          fetchRes[n] = "failed" =>
              /\ outcome[n] = "FetchFailed"
              /\ copyRes[n] = "none"
              /\ ~md5read[n].issued
              /\ deployed[PathOf(n)] = deployedAtStart[PathOf(n)]
    /\ (pc = "done" /\ i > 0) =>
          \A n \in Names :
              outcome[n] \in Terminal /\ outcome[n] = OwnOutcome(n)
    /\ (\A n \in Names : fetchRes[n] = "failed") =>
          restarts = 0 /\ restartOutcome = "NotAttempted" /\ ~changed
    /\ restarts > 0 =>
          \E n \in Names : fetchRes[n] = "ok" /\ copyRes[n] = "ok"

\* the first download failed and the second artifact was still applied
C5_Witness ==
    /\ pc = "done"
    /\ fetchRes["geoip.dat"] = "failed"
    /\ outcome["geosite.dat"] = "Applied"
    /\ restarts = 1

\* ------------------------------------------------------------------ C6
\* C6 (as claimed): get_container_file_md5 returns None only when the file
\* is confirmed absent, returns the fingerprint of the bytes when the file
\* exists, and reports a failure of the command channel as something other
\* than None.
C6_NoCoercionToAbsent ==
    \A n \in Names :
        md5read[n].issued =>
            /\ md5read[n].result = None <=>
                   (md5read[n].execOk /\ md5read[n].content = NotFound)
            /\ (md5read[n].execOk /\ md5read[n].content # NotFound) =>
                   md5read[n].result = md5(md5read[n].content)

\* ------------------------------------------------------------------ C7
\* C7 (as claimed): when docker is not in PATH, or `docker ps` lists no
\* container xray_server, the run ends with main returning 1 and no
\* download, fingerprint read, copy or restart issued.
StartUnavailable ==
    \/ ~dockerPresent
    \/ dockerPs.rc = 0 /\ \A k \in DOMAIN dockerPs.out :
                               dockerPs.out[k] # CONTAINER

NothingIssued ==
    /\ \A n \in Names :
          /\ fetchRes[n] = "none"
          /\ copyRes[n] = "none"
          /\ ~md5read[n].issued
          /\ outcome[n] = "Pending"
    /\ restarts = 0
    /\ deployed = deployedAtStart

C7_AbortsWithReturn1 ==
    StartUnavailable =>
        /\ NothingIssued
        /\ pc \in {"docker_available", "container_exists", "done"}
        /\ pc = "done" => ret = 1 /\ raised = ""

\* ------------------------------------------------------------------ C8
\* C8: for every artifact that is Unchanged or Applied, the bytes at its
\* path in the container are the bytes the download of this run delivered.
C8_DeployedEqualsFetched ==
    \A n \in Names :
        outcome[n] \in {"Unchanged", "Applied"} =>
            /\ fetched[n] \in Contents
            /\ deployed[PathOf(n)] = fetched[n]

\* two artifacts with different remote bytes, both replaced in one run
C8_Witness ==
    /\ Completed
    /\ AppliedSet = Names
    /\ fetched["geoip.dat"] # fetched["geosite.dat"]
    /\ \A n \in Names : deployedAtStart[PathOf(n)] \notin {fetched[n], NotFound}

\* ------------------------------------------------------------------ C9
\* C9: an artifact whose copy failed is ApplyFailed and its path holds what
\* it held at the start of the run; the run still brings every artifact to
\* a terminal outcome; the change flag is set only by a successful copy, so
\* failed copies alone lead to no restart.
C9_FailedApplyLeavesState ==
    /\ \A n \in Names :
          copyRes[n] = "failed" =>
              /\ outcome[n] = "ApplyFailed"
              /\ deployed[PathOf(n)] = deployedAtStart[PathOf(n)]
    /\ (pc = "done" /\ \E n \in Names : copyRes[n] = "failed") =>
          /\ raised = "" /\ ret \in {0, 1}
          /\ \A n \in Names : outcome[n] \in Terminal
    /\ changed => \E n \in Names : copyRes[n] = "ok"
    /\ (\A n \in Names : copyRes[n] # "ok") =>
          restarts = 0 /\ restartOutcome = "NotAttempted"

\* the first copy failed, the second artifact was still processed, the run
\* ended without a restart
C9_Witness ==
    /\ Completed
    /\ outcome["geoip.dat"] = "ApplyFailed"
    /\ deployedAtStart[PathOf("geoip.dat")] # fetched["geoip.dat"]
    /\ outcome["geosite.dat"] = "ApplyFailed"
    /\ restartOutcome = "NotAttempted"
    /\ ret = 0

\* ----------------------------------------------------------------- C10
\* C10: when the restart failed the run has ended returning 1, the restart
\* was issued once, and every artifact whose copy succeeded is still Applied
\* with the downloaded bytes deployed.
C10_RestartFailureReported ==
    restartOutcome = "Failed" =>
        /\ pc = "done"
        /\ ret = 1
        /\ restarts = 1
        /\ AppliedSet # {}
        /\ \A n \in Names :
              copyRes[n] = "ok" =>
                  outcome[n] = "Applied" /\ deployed[PathOf(n)] = fetched[n]

\* a failed restart after one artifact was replaced
C10_Witness ==
    /\ restartOutcome = "Failed"
    /\ outcome["geoip.dat"] = "Applied"
    /\ deployed[PathOf("geoip.dat")] # deployedAtStart[PathOf("geoip.dat")]
    /\ outcome["geosite.dat"] = "FetchFailed"

\* ----------------------------------------------------------------- C11
\* C11: an artifact whose path was absent from the container when the
\* fingerprint was read, and whose download succeeded, is never Unchanged:
\* once it has its terminal outcome a copy was issued for it, and the
\* outcome is Applied exactly when that copy succeeded, whatever the
\* downloaded bytes (the empty file included).
C11_MissingTargetApplied ==
    \A n \in Names :
        (/\ fetchRes[n] = "ok"
         /\ md5read[n].issued
         /\ md5read[n].content = NotFound) =>
            /\ md5read[n].result = None
            /\ outcome[n] # "Unchanged"
            /\ outcome[n] = "Pending" => (pc = "copy" /\ FILES[i] = n)
            /\ outcome[n] \in Terminal =>
                  /\ copyRes[n] # "none"
                  /\ copyRes[n] = "ok" =>
                        /\ outcome[n] = "Applied"
                        /\ deployed[PathOf(n)] = fetched[n]

\* an absent target and an empty download, applied
C11_Witness ==
    /\ Completed
    /\ deployedAtStart[PathOf("geoip.dat")] = NotFound
    /\ fetched["geoip.dat"] = ""
    /\ outcome["geoip.dat"] = "Applied"
    /\ deployed[PathOf("geoip.dat")] = ""

\* ==================================================== uninstall.py
CONTAINERS == <<"xray_server", "xray_tun2socks">>
ContainerNames == {CONTAINERS[k] : k \in DOMAIN CONTAINERS}

\* run: the value returned, or the exception that leaves it
uninstall_run(c, check, capture) ==
    IF ~c.found THEN Raise("FileNotFoundError")
    ELSE IF check /\ c.rc # 0 THEN Raise("CalledProcessError")
    ELSE IF capture THEN Ret(c.out) ELSE RetNone

\* docker_available: run(["which", "docker"], check=False) is not None
uninstall_docker_available(present) ==
    ~uninstall_run(Cmd(TRUE, IF present THEN 0 ELSE 1,
                       IF present THEN "/usr/bin/docker" ELSE ""),
                   FALSE, TRUE).isNone

\* a docker command on this host: found iff docker is in PATH
DockerCmd(present, rc, out) == Cmd(present, rc, out)

\* container_exists: ps is the `docker ps -a` result, its output the set of
\* lines; a boolean, or the exception run raised
uninstall_container_exists(name, ps) ==
    LET r == uninstall_run(ps, FALSE, TRUE) IN
    IF r.raised # "" THEN r ELSE Ret(name \in r.val)

\* what `docker inspect --format {{.Image}}` can print ("" when it fails)
ImageIds == {"", "sha256:5d0da3dc9764", "5d0da3dc"}
StrLen(str) ==
    CASE str = "" -> 0
      [] str = "sha256:5d0da3dc9764" -> 19
      [] str = "5d0da3dc" -> 8

\* get_container_image_id
get_container_image_id(name, ps, inspect) ==
    LET e == uninstall_container_exists(name, ps) IN
    IF e.raised # "" THEN e
    ELSE IF ~e.val THEN RetNone
    ELSE LET r == uninstall_run(inspect, FALSE, TRUE) IN
         IF r.raised # "" THEN r
         ELSE IF r.val # "" THEN r ELSE RetNone

\* confirm: the answers a user can type, and .strip().lower() of each
Answers == {"", "y", "Y", "yes", "n", "No", "maybe"}
Lower(a) == CASE a = "Y" -> "y" [] a = "No" -> "no" [] OTHER -> a

uninstallFrame == <<geoipVars, installVars>>

InitU ==
    /\ dockerPresent \in BOOLEAN
    /\ dockerPs = Cmd(TRUE, 0, <<>>)
    /\ remote = [n \in Names |-> ""]
    /\ deployed = [p \in Paths |-> NotFound]
    /\ deployedAtStart = deployed
    /\ run = 1
    /\ FreshRun
    /\ env_file \in {NoEnv, [exists |-> TRUE, data |-> EmptyEnv]}
    /\ config_json \in {NoConfig, [NoConfig EXCEPT !.exists = TRUE]}
    /\ u_pc = "start" /\ u_i = 0
    /\ u_args \in [root : BOOLEAN, dry_run : BOOLEAN, yes : BOOLEAN,
                   remove_env : BOOLEAN]
    /\ u_containers \in SUBSET ContainerNames
    /\ u_image_id = None
    /\ u_cmds = {} /\ u_unlinks = {}
    /\ u_proceed = FALSE
    /\ u_ret = -1 /\ u_raised = ""
    /\ u_before = [env |-> env_file, config |-> config_json]
    /\ InstallAtRest

\* lines 129-145
U_Start ==
    /\ u_pc = "start"
    /\ IF ~u_args.root
       THEN u_pc' = "done" /\ u_ret' = 2
       ELSE u_pc' = "docker_check" /\ u_ret' = u_ret
    /\ UNCHANGED <<hostVars, u_i, u_args, u_containers, u_image_id, u_cmds,
                   u_unlinks, u_proceed, u_raised, u_before, uninstallFrame>>

\* lines 147-152: the warning and the summary change nothing
U_DockerCheck ==
    /\ u_pc = "docker_check"
    /\ IF u_args.yes
       THEN u_pc' = "image_id" /\ u_proceed' = TRUE
       ELSE u_pc' = "confirm" /\ u_proceed' = u_proceed
    /\ UNCHANGED <<hostVars, u_i, u_args, u_containers, u_image_id, u_cmds,
                   u_unlinks, u_ret, u_raised, u_before, uninstallFrame>>

\* lines 153-154 and confirm (116-126): one answer of the user
U_Confirm ==
    /\ u_pc = "confirm"
    /\ IF u_args.dry_run
       THEN u_pc' = "image_id" /\ u_proceed' = TRUE /\ u_ret' = u_ret
       ELSE \E a \in Answers :
              IF Lower(a) \in {"", "y", "yes"}
              THEN u_pc' = "image_id" /\ u_proceed' = TRUE /\ u_ret' = u_ret
              ELSE IF Lower(a) \in {"n", "no"}
              THEN u_pc' = "done" /\ u_ret' = 0 /\ u_proceed' = u_proceed
              ELSE UNCHANGED <<u_pc, u_proceed, u_ret>>
    /\ UNCHANGED <<hostVars, u_i, u_args, u_containers, u_image_id, u_cmds,
                   u_unlinks, u_raised, u_before, uninstallFrame>>

\* lines 156-159
U_ImageId ==
    /\ u_pc = "image_id"
    /\ IF uninstall_docker_available(dockerPresent)
       THEN \E img \in ImageIds :
              LET r == get_container_image_id("xray_tun2socks",
                           DockerCmd(dockerPresent, 0, u_containers),
                           DockerCmd(dockerPresent,
                                     IF img = "" THEN 1 ELSE 0, img)) IN
              /\ u_cmds' = u_cmds \cup
                     (IF r.raised = "" /\ "xray_tun2socks" \in u_containers
                      THEN {"ps", "inspect"} ELSE {"ps"})
              /\ IF r.raised # ""
                 THEN /\ u_pc' = "done" /\ u_raised' = r.raised
                      /\ u_image_id' = u_image_id /\ u_i' = u_i
                 ELSE /\ u_pc' = "remove_containers" /\ u_i' = 1
                      /\ u_image_id' = (IF r.isNone THEN None ELSE r.val)
                      /\ u_raised' = u_raised
       ELSE /\ u_pc' = "remove_image"
            /\ UNCHANGED <<u_image_id, u_cmds, u_raised, u_i>>
    /\ UNCHANGED <<hostVars, u_args, u_containers, u_unlinks, u_proceed,
                   u_ret, u_before, uninstallFrame>>

\* lines 161-164 with remove_container (87-94), one container per step
U_RemoveContainer ==
    /\ u_pc = "remove_containers"
    /\ LET c == CONTAINERS[u_i]
           e == uninstall_container_exists(c,
                    DockerCmd(dockerPresent, 0, u_containers)) IN
       IF ~uninstall_docker_available(dockerPresent)
       THEN u_pc' = "remove_image"
            /\ UNCHANGED <<u_i, u_cmds, u_containers, u_raised>>
       ELSE IF e.raised # ""
       THEN /\ u_pc' = "done" /\ u_raised' = e.raised
            /\ u_cmds' = u_cmds \cup {"ps"}
            /\ UNCHANGED <<u_i, u_containers>>
       ELSE /\ u_i' = u_i + 1
            /\ u_pc' = IF u_i' > Len(CONTAINERS) THEN "remove_image"
                       ELSE "remove_containers"
            /\ u_raised' = u_raised
            /\ IF ~e.val \/ u_args.dry_run
               THEN u_cmds' = u_cmds \cup {"ps"} /\ u_containers' = u_containers
               ELSE \E ok \in BOOLEAN :
                      /\ u_cmds' = u_cmds \cup {"ps", "rm"}
                      /\ u_containers' = IF ok THEN u_containers \ {c}
                                         ELSE u_containers
    /\ UNCHANGED <<hostVars, u_args, u_image_id, u_unlinks, u_proceed,
                   u_ret, u_before, uninstallFrame>>

\* lines 166-172 with remove_image (97-101)
U_RemoveImage ==
    /\ u_pc = "remove_image"
    /\ LET r == uninstall_run(DockerCmd(dockerPresent, 0, ""), FALSE, TRUE) IN
       IF u_image_id # None /\ StrLen(u_image_id) > 8 /\ ~u_args.dry_run
       THEN /\ u_cmds' = u_cmds \cup {"rmi"}
            /\ IF r.raised # ""
               THEN u_pc' = "done" /\ u_raised' = r.raised
               ELSE u_pc' = "remove_config" /\ u_raised' = u_raised
       ELSE u_pc' = "remove_config" /\ UNCHANGED <<u_cmds, u_raised>>
    /\ UNCHANGED <<hostVars, u_i, u_args, u_containers, u_image_id,
                   u_unlinks, u_proceed, u_ret, u_before, uninstallFrame>>

\* lines 174-185: unlink can fail, which is logged and ignored
U_RemoveConfig ==
    /\ u_pc = "remove_config"
    /\ IF config_json.exists /\ ~u_args.dry_run
       THEN \E ok \in BOOLEAN :
              /\ u_unlinks' = u_unlinks \cup {"config_client.json"}
              /\ config_json' = IF ok THEN NoConfig ELSE config_json
       ELSE UNCHANGED <<u_unlinks, config_json>>
    /\ u_pc' = "remove_env"
    /\ UNCHANGED <<env_file, u_i, u_args, u_containers, u_image_id, u_cmds,
                   u_proceed, u_ret, u_raised, u_before, uninstallFrame>>

\* lines 187-201
U_RemoveEnv ==
    /\ u_pc = "remove_env"
    /\ IF u_args.remove_env /\ env_file.exists /\ ~u_args.dry_run
       THEN \E ok \in BOOLEAN :
              /\ u_unlinks' = u_unlinks \cup {".env"}
              /\ env_file' = IF ok THEN NoEnv ELSE env_file
       ELSE UNCHANGED <<u_unlinks, env_file>>
    /\ u_pc' = "done"
    /\ u_ret' = 0
    /\ UNCHANGED <<config_json, u_i, u_args, u_containers, u_image_id,
                   u_cmds, u_proceed, u_raised, u_before, uninstallFrame>>

NextU ==
    \/ U_Start
    \/ U_DockerCheck
    \/ U_Confirm
    \/ U_ImageId
    \/ U_RemoveContainer
    \/ U_RemoveImage
    \/ U_RemoveConfig
    \/ U_RemoveEnv

SpecUninstall == InitU /\ [][NextU]_vars

\* ----------------------------------------------------------------- C12
\* C12 (as claimed): when docker is not in PATH, a run of uninstall.py as
\* root that ended has tried no docker command and returned 0, and unless
\* the user declined or --dry-run was given it has unlinked
\* config_client.json if it existed, and .env if it existed and
\* --remove-env was given.
C12_FilesOnlyWithoutDocker ==
    (u_pc = "done" /\ u_args.root /\ ~dockerPresent) =>
        /\ u_cmds = {}
        /\ u_raised = ""
        /\ u_ret = 0
        /\ (u_proceed /\ ~u_args.dry_run) =>
              /\ u_before.config.exists =>
                    "config_client.json" \in u_unlinks
              /\ (u_args.remove_env /\ u_before.env.exists) =>
                    ".env" \in u_unlinks

\* ====================================================== install.py
\* longest --server list tried
MaxServers == 2

\* a string is a sequence of tokens; ":" and "," are the separators the
\* code splits on
ServerArgs == {<<"h1", ":", "u1">>, <<"h2", ":", "u2">>, <<"h1">>,
               <<":", "u1">>}
ServerLists == UNION {[1..n -> ServerArgs] : n \in 0..MaxServers}

\* index of the first token t in str, 0 when there is none
FirstIdx(str, t) ==
    IF \E k \in DOMAIN str : str[k] = t
    THEN CHOOSE k \in DOMAIN str :
            str[k] = t /\ \A j \in 1..(k - 1) : str[j] # t
    ELSE 0

\* str.split(t, 1) of a string that holds t
Before(str, t) == SubSeq(str, 1, FirstIdx(str, t) - 1)
After(str, t) == SubSeq(str, FirstIdx(str, t) + 1, Len(str))

\* str.split(",")
RECURSIVE SplitComma(_)
SplitComma(str) ==
    IF FirstIdx(str, ",") = 0 THEN <<str>>
    ELSE <<Before(str, ",")>> \o SplitComma(After(str, ","))

\* parse_servers: the list, or ValueError
ValidServerArg(v) ==
    FirstIdx(v, ":") # 0 /\ Before(v, ":") # <<>> /\ After(v, ":") # <<>>

parse_servers(values) ==
    IF (\E k \in DOMAIN values : ~ValidServerArg(values[k])) \/ values = <<>>
    THEN Raise("ValueError")
    ELSE Ret([k \in DOMAIN values |->
                 [host |-> Before(values[k], ":"),
                  uuid |-> After(values[k], ":")]])

\* servers_to_env_value: ",".join(host:uuid)
RECURSIVE servers_to_env_value(_)
servers_to_env_value(servers) ==
    IF servers = <<>> THEN <<>>
    ELSE LET h == Head(servers)
             one == h.host \o <<":">> \o h.uuid IN
         IF Len(servers) = 1 THEN one
         ELSE one \o <<",">> \o servers_to_env_value(Tail(servers))

\* servers_from_env_value: parts without ":" are skipped
RECURSIVE PartsToServers(_)
PartsToServers(parts) ==
    IF parts = <<>> THEN <<>>
    ELSE LET part == Head(parts) IN
         IF part = <<>> \/ FirstIdx(part, ":") = 0
         THEN PartsToServers(Tail(parts))
         ELSE <<[host |-> Before(part, ":"), uuid |-> After(part, ":")]>>
              \o PartsToServers(Tail(parts))

servers_from_env_value(value) == PartsToServers(SplitComma(value))

\* the env dict of main
Has(e, k) == k \in e.keys
Put(e, k, v) == [keys |-> e.keys \cup {k}, val |-> [e.val EXCEPT ![k] = v]]
NetKeys == {"ARCH", "IFACE", "ADDR", "LAN"}

\* load_env
load_env(file) == IF ~file.exists THEN EmptyEnv ELSE file.data

\* write_env: only the required keys are written
write_env(e) ==
    [exists |-> TRUE,
     data |-> [keys |-> e.keys \cap EnvKeys,
               val |-> [k \in FileKeys |->
                           IF k \in e.keys \cap EnvKeys THEN e.val[k]
                           ELSE <<>>]]]

\* calc_network: the network of addr/prefix
calc_network(addr, prefix) ==
    CASE addr = "192.168.1.10" /\ prefix = 24 -> "192.168.1.0/24"
      [] addr = "10.0.0.5" /\ prefix = 24 -> "10.0.0.0/24"
      [] addr = "10.0.0.5" /\ prefix = 8 -> "10.0.0.0/8"
      [] OTHER -> "0.0.0.0/0"

\* hosts the detection helpers can run on (ok: every command succeeds)
Hosts ==
    {[ok |-> o, arch |-> "arm64", iface |-> "eth0", addr |-> "192.168.1.10",
      prefix |-> 24] : o \in BOOLEAN}
    \cup {[ok |-> TRUE, arch |-> "amd64", iface |-> "wlan0",
           addr |-> "10.0.0.5", prefix |-> 8]}

\* the env.update({...}) of lines 327-337
DetectedEnv(e, h, servers) ==
    Put(Put(Put(Put(Put(e, "ARCH", <<h.arch>>), "IFACE", <<h.iface>>),
            "ADDR", <<h.addr>>), "LAN", <<calc_network(h.addr, h.prefix)>>),
        "SERVERS", servers_to_env_value(servers))

\* render_template: the tagged servers and the outbound tag
TagNames == <<"proxy", "proxy2", "proxy3", "proxy4">>
render_template(servers) ==
    LET tagged == [k \in DOMAIN servers |->
                      [host |-> servers[k].host, uuid |-> servers[k].uuid,
                       tag |-> TagNames[k]]] IN
    [exists |-> TRUE, servers |-> tagged,
     domain_outbound_tag |-> IF Len(tagged) > 1 THEN tagged[2].tag
                             ELSE tagged[1].tag]

\* the .env files a host can start with
StoredNet ==
    {EmptyEnv,
     DetectedEnv(EmptyEnv, [ok |-> TRUE, arch |-> "arm64", iface |-> "eth0",
                            addr |-> "192.168.1.10", prefix |-> 24], <<>>),
     [keys |-> {"ARCH", "IFACE", "ADDR"},
      val |-> [k \in FileKeys |->
                  CASE k = "ARCH" -> <<"arm64">> [] k = "IFACE" -> <<"eth0">>
                    [] k = "ADDR" -> <<"192.168.1.10">> [] OTHER -> <<>>]]}
StoredServers == {<<>>, <<"h1", ":", "u1">>}
EnvFiles ==
    {NoEnv} \cup
    {[exists |-> TRUE,
      data |-> [keys |-> (n.keys \ {"SERVERS"}) \cup ks \cup tz,
                val |-> [k \in FileKeys |->
                            IF k = "SERVERS" /\ k \in ks THEN sv
                            ELSE IF k = "TZ" /\ k \in tz THEN <<"UTC">>
                            ELSE IF k = "SERVERS" THEN <<>>
                            ELSE n.val[k]]]] :
        n \in StoredNet, sv \in StoredServers,
        ks \in {{}, {"SERVERS"}}, tz \in {{}, {"TZ"}}}

installFrame == <<geoipVars, uninstallVars>>

InitI ==
    /\ dockerPresent = TRUE
    /\ dockerPs = Cmd(TRUE, 0, <<>>)
    /\ remote = [n \in Names |-> ""]
    /\ deployed = [p \in Paths |-> NotFound]
    /\ deployedAtStart = deployed
    /\ run = 1
    /\ FreshRun
    /\ UninstallAtRest
    /\ env_file \in EnvFiles
    /\ config_json \in {NoConfig, render_template(<<[host |-> <<"h1">>,
                                                    uuid |-> <<"u1">>]>>)}
    /\ i_pc = "start"
    /\ i_args \in [root : BOOLEAN, dry_run : BOOLEAN, force : BOOLEAN,
                   yes : BOOLEAN, server : ServerLists]
    /\ detected \in Hosts
    /\ i_env = EmptyEnv /\ i_servers = <<>>
    /\ i_declined = FALSE
    /\ i_system = {}
    /\ i_ret = -1 /\ i_raised = ""
    /\ i_before = [env |-> env_file, config |-> config_json]

\* lines 277-310
I_Start ==
    /\ i_pc = "start"
    /\ IF ~i_args.root
       THEN i_pc' = "done" /\ i_ret' = 1 /\ i_env' = i_env
       ELSE i_pc' = "servers" /\ i_ret' = i_ret /\ i_env' = load_env(env_file)
    /\ UNCHANGED <<hostVars, i_args, detected, i_servers, i_declined,
                   i_system, i_raised, i_before, installFrame>>

\* lines 312-365; --force is parsed (289-293) and read nowhere
I_Servers ==
    /\ i_pc = "servers"
    /\ IF i_args.server # <<>>
       THEN LET p == parse_servers(i_args.server) IN
            IF p.raised # ""
            THEN /\ i_pc' = "done" /\ i_ret' = 2
                 /\ UNCHANGED <<i_env, i_servers, env_file, i_raised>>
            ELSE IF i_env.keys # {} /\ \A k \in NetKeys : Has(i_env, k)
            THEN /\ i_servers' = p.val
                 /\ i_env' = Put(i_env, "SERVERS", servers_to_env_value(p.val))
                 /\ env_file' = IF i_args.dry_run THEN env_file
                                ELSE write_env(i_env')
                 /\ i_pc' = "confirm"
                 /\ UNCHANGED <<i_ret, i_raised>>
            ELSE IF ~detected.ok
            THEN /\ i_pc' = "done" /\ i_raised' = "RuntimeError"
                 /\ i_servers' = p.val
                 /\ UNCHANGED <<i_env, env_file, i_ret>>
            ELSE /\ i_servers' = p.val
                 /\ i_env' = DetectedEnv(i_env, detected, p.val)
                 /\ env_file' = IF i_args.dry_run THEN env_file
                                ELSE write_env(i_env')
                 /\ i_pc' = "confirm"
                 /\ UNCHANGED <<i_ret, i_raised>>
       ELSE IF i_env.keys # {} /\ Has(i_env, "SERVERS")
       THEN LET sv == servers_from_env_value(i_env.val["SERVERS"]) IN
            /\ i_servers' = sv
            /\ IF sv = <<>> \/ \E k \in EnvKeys : ~Has(i_env, k)
               THEN i_pc' = "done" /\ i_ret' = 2
               ELSE i_pc' = "confirm" /\ i_ret' = i_ret
            /\ UNCHANGED <<i_env, env_file, i_raised>>
       ELSE /\ i_pc' = "done" /\ i_ret' = 2
            /\ UNCHANGED <<i_env, i_servers, env_file, i_raised>>
    /\ UNCHANGED <<config_json, i_args, detected, i_declined, i_system,
                   i_before, installFrame>>

\* lines 367-370 and confirm_settings (242-273): one answer of the user
I_Confirm ==
    /\ i_pc = "confirm"
    /\ IF i_args.yes \/ i_args.dry_run
       THEN i_pc' = "render" /\ UNCHANGED <<i_ret, i_declined>>
       ELSE \E a \in Answers :
              IF a = "" \/ Lower(a) \in {"y", "yes"}
              THEN i_pc' = "render" /\ UNCHANGED <<i_ret, i_declined>>
              ELSE IF Lower(a) \in {"n", "no"}
              THEN i_pc' = "done" /\ i_ret' = 0 /\ i_declined' = TRUE
              ELSE UNCHANGED <<i_pc, i_ret, i_declined>>
    /\ UNCHANGED <<hostVars, i_args, detected, i_env, i_servers, i_system,
                   i_raised, i_before, installFrame>>

\* line 373 with render_template (127-143); the template can be missing
I_Render ==
    /\ i_pc = "render"
    /\ \E template \in BOOLEAN :
          IF ~template
          THEN /\ i_pc' = "done" /\ i_raised' = "FileNotFoundError"
               /\ config_json' = config_json
          ELSE /\ i_pc' = "system" /\ i_raised' = i_raised
               /\ config_json' = IF i_args.dry_run THEN config_json
                                 ELSE render_template(i_servers)
    /\ UNCHANGED <<env_file, i_args, detected, i_env, i_servers, i_declined,
                   i_system, i_ret, i_before, installFrame>>

\* lines 375-396: the system changes in order; a checked command that fails
\* (sysctl -p after the sysctl file was written, apt in install_docker)
\* raises RuntimeError and leaves the changes made so far
SystemSteps == <<"sysctl_conf", "ip_forward", "firewall", "docker", "geoip",
                 "compose">>
I_System ==
    /\ i_pc = "system"
    /\ \E failAt \in {2, 4, Len(SystemSteps) + 1} :
          /\ i_system' = IF i_args.dry_run THEN i_system
                         ELSE i_system \cup
                              {SystemSteps[k] : k \in 1..(failAt - 1)}
          /\ IF failAt <= Len(SystemSteps) /\ ~i_args.dry_run
             THEN i_raised' = "RuntimeError" /\ i_ret' = i_ret
             ELSE i_raised' = i_raised /\ i_ret' = 0
    /\ i_pc' = "done"
    /\ UNCHANGED <<hostVars, i_args, detected, i_env, i_servers, i_declined,
                   i_before, installFrame>>

NextI ==
    \/ I_Start
    \/ I_Servers
    \/ I_Confirm
    \/ I_Render
    \/ I_System

SpecInstall == InitI /\ [][NextI]_vars

\* ----------------------------------------------------------------- C13
\* C13 (as claimed): a run with --force and --server that got past the
\* settings stage (not --dry-run, detection working) has written a .env
\* whose ARCH, IFACE, ADDR and LAN are the values detected on the host, also
\* when a complete .env existed before.
C13_ForceRedetects ==
    (/\ i_pc \in {"confirm", "render", "system"}
     /\ i_args.force /\ i_args.server # <<>>
     /\ ~i_args.dry_run /\ detected.ok) =>
        /\ env_file.exists
        /\ env_file.data.val["ARCH"] = <<detected.arch>>
        /\ env_file.data.val["IFACE"] = <<detected.iface>>
        /\ env_file.data.val["ADDR"] = <<detected.addr>>
        /\ env_file.data.val["LAN"] =
               <<calc_network(detected.addr, detected.prefix)>>

\* ----------------------------------------------------------------- C14
\* C14 (as claimed): a run the user declined at the prompt returned 0 and
\* left .env, config_client.json and the system configuration as they were
\* when it started.
C14_DeclineChangesNothing ==
    i_declined =>
        /\ i_pc = "done"
        /\ i_ret = 0
        /\ i_raised = ""
        /\ env_file = i_before.env
        /\ config_json = i_before.config
        /\ i_system = {}

====
